---- MODULE Spec2Model ----
(***************************************************************************)
(* Model of apps/stgp_poisson.py: the fitness evaluation of a candidate    *)
(* energy functional (eval_MSE, eval_fitness, ObjFunction.total_energy)    *)
(* and the set-up of the evolutionary run (stgp_poisson).                  *)
(*                                                                         *)
(* Floating point values are modelled over the integers: a float is a      *)
(* tuple, <<v>> for the number v and <<>> for NaN, so that NaN never       *)
(* compares equal to, or greater than, a number.  Means are kept as exact  *)
(* fractions num/den.                                                      *)
(***************************************************************************)
EXTENDS Integers, Sequences, FiniteSets, TLC

(***************************************************************************)
(* Bounds of the model.                                                    *)
(***************************************************************************)
NumNodes == 2
MaxSamples == 3
MaxReg == 2
GridMax == 3

(***************************************************************************)
(* Floats.                                                                 *)
(***************************************************************************)
NaN == <<>>
Num(v) == <<v>>
IsNaN(a) == Len(a) = 0
Val(a) == a[1]
FAdd(a, b) == IF IsNaN(a) \/ IsNaN(b) THEN NaN ELSE Num(Val(a) + Val(b))
FGt(a, v) == ~IsNaN(a) /\ Val(a) > v

RECURSIVE SumTo(_, _)
SumTo(f, n) == IF n = 0 THEN 0 ELSE f[n] + SumTo(f, n - 1)

RECURSIVE SumSeq(_)
SumSeq(s) == IF s = <<>> THEN 0 ELSE Head(s) + SumSeq(Tail(s))

(***************************************************************************)
(* Mesh: nodes 1..NumNodes, node 1 on the boundary; Dirichlet penalty.     *)
(***************************************************************************)
Nodes == 1..NumNodes
bnodes == {1}
gamma == 1000
Big == 1000

\* X[:, bnodes] of one row
BValues(Xrow) == [b \in bnodes |-> Xrow[b]]

(***************************************************************************)
(* Individuals: a PrimitiveTree is the prefix list of its nodes.  The      *)
(* compiler of expressions is an opaque service; `energy` records what     *)
(* toolbox.compile returns for the tree ("illtyped": it raises).           *)
(***************************************************************************)
Arity(name) ==
    CASE name = "Add" -> 2
      [] name = "AddP" -> 2
      [] name = "Sub" -> 2
      [] name = "Inn" -> 2
      [] name = "cob" -> 1
      [] OTHER -> 0

Chars(name) ==
    CASE name = "Add" -> <<"A", "d", "d">>
      [] name = "AddP" -> <<"A", "d", "d", "P">>
      [] name = "Sub" -> <<"S", "u", "b">>
      [] name = "Inn" -> <<"I", "n", "n">>
      [] name = "cob" -> <<"c", "o", "b">>
      [] name = "u" -> <<"u">>
      [] name = "fk" -> <<"f", "k">>
      [] OTHER -> <<"?">>

\* names of the primitives whose occurrences are penalised
primitives_strings == <<Chars("Add"), Chars("AddP"), Chars("Sub"), Chars("Inn"), Chars("cob")>>

\* end (exclusive) of the subtree of `tree` that starts at position i
RECURSIVE SubtreeEnd(_, _, _)
SubtreeEnd(tree, i, pending) ==
    IF pending = 0 THEN i
    ELSE SubtreeEnd(tree, i + 1, pending - 1 + Arity(tree[i]))

RECURSIVE JoinArgs(_, _, _)
RECURSIVE StrAt(_, _)
\* str() of the subtree at position i: name(arg0, arg1) or the terminal's name
StrAt(tree, i) ==
    IF Arity(tree[i]) = 0 THEN Chars(tree[i])
    ELSE Chars(tree[i]) \o <<"(">> \o JoinArgs(tree, i + 1, Arity(tree[i])) \o <<")">>
JoinArgs(tree, i, k) ==
    IF k = 0 THEN <<>>
    ELSE StrAt(tree, i)
         \o (IF k > 1 THEN <<",", " ">> ELSE <<>>)
         \o JoinArgs(tree, SubtreeEnd(tree, i, 1), k - 1)

Str(individual) == StrAt(individual.tree, 1)

IsPrefixAt(s, sub, i) ==
    /\ i + Len(sub) - 1 <= Len(s)
    /\ \A k \in 1..Len(sub) : s[i + k - 1] = sub[k]

\* str.count(sub): non-overlapping occurrences, scanning from the left
RECURSIVE CountFrom(_, _, _)
CountFrom(s, sub, i) ==
    IF i + Len(sub) - 1 > Len(s) THEN 0
    ELSE IF IsPrefixAt(s, sub, i) THEN 1 + CountFrom(s, sub, i + Len(sub))
    ELSE CountFrom(s, sub, i + 1)

Count(s, sub) == CountFrom(s, sub, 1)

RECURSIVE MaxOfSeq(_)
MaxOfSeq(s) ==
    IF Len(s) = 1 THEN s[1]
    ELSE LET m == MaxOfSeq(Tail(s)) IN IF s[1] >= m THEN s[1] ELSE m

\* PrimitiveTree.height: the depth of the deepest node
RECURSIVE HeightFrom(_, _, _, _)
HeightFrom(tree, i, stack, max_depth) ==
    IF i > Len(tree) THEN max_depth
    ELSE LET depth == Head(stack)
             kids == [k \in 1..Arity(tree[i]) |-> depth + 1]
         IN HeightFrom(tree, i + 1, kids \o Tail(stack),
                       IF depth > max_depth THEN depth ELSE max_depth)

Height(individual) == HeightFrom(individual.tree, 1, <<0>>, 0)

(***************************************************************************)
(* ObjFunction and the inner solve.                                        *)
(***************************************************************************)
\* the compiled energy of an individual, evaluated at the field x and the
\* source y ("nan": an energy that is not a number for the larger sources)
energy_func(energy, x, y) ==
    CASE energy = "zero" -> Num(0)
      [] energy = "weighted" ->
            Num(SumTo([n \in Nodes |-> y[n] * (x[n] - y[n]) * (x[n] - y[n])], NumNodes))
      [] energy = "unbounded" ->
            Num(0 - SumTo([n \in Nodes |-> x[n] * y[n]], NumNodes))
      [] energy = "nan" ->
            IF SumTo(y, NumNodes) >= 2 THEN NaN ELSE Num(0)
      [] OTHER -> NaN

total_energy(energy, vec_x, vec_y, vec_bvalues) ==
    LET sq == [n \in Nodes |->
                 IF n \in bnodes
                 THEN (vec_x[n] - vec_bvalues[n]) * (vec_x[n] - vec_bvalues[n])
                 ELSE 0]
        penalty == (gamma \div 2) * SumTo(sq, NumNodes)
    IN FAdd(energy_func(energy, vec_x, vec_y), Num(penalty))

\* jac = grad(obj.total_energy): the derivative of the objective with
\* respect to vec_x[n]
jac(energy, vec_x, vec_y, vec_bvalues, n) ==
    (CASE energy = "weighted" -> 2 * vec_y[n] * (vec_x[n] - vec_y[n])
       [] energy = "unbounded" -> 0 - vec_y[n]
       [] OTHER -> 0)
    + (IF n \in bnodes THEN gamma * (vec_x[n] - vec_bvalues[n]) ELSE 0)

\* One coordinate of the point a descent from x0 stops at: x0[n] where the
\* gradient vanishes at x0, else the stationary point along the coordinate,
\* else (the objective falls without bound) a huge value.  The objectives of
\* the model are sums over the nodes, so the coordinates are solved one by
\* one.
SolveCoord(energy, x0, vec_y, vec_bvalues, n) ==
    LET g(v) == jac(energy, [x0 EXCEPT ![n] = v], vec_y, vec_bvalues, n)
        zeros == {v \in 0..GridMax : g(v) = 0}
    IN IF g(x0[n]) = 0 THEN Num(x0[n])
       ELSE IF zeros # {} THEN Num(CHOOSE v \in zeros : TRUE)
       ELSE Num(Big)

\* faulty variant: a solver that reports its starting point
MinimizeStays(energy, x0, vec_y, vec_bvalues) == x0

\* minimize(fun=obj.total_energy, x0=..., args=(vec_y, vec_bvalues)).x
Minimize(energy, x0, vec_y, vec_bvalues) ==
    IF \E n \in Nodes : IsNaN(x0[n]) THEN [n \in Nodes |-> NaN]
    ELSE LET start == [n \in Nodes |-> Val(x0[n])]
         IN IF IsNaN(total_energy(energy, start, vec_y, vec_bvalues))
            THEN [n \in Nodes |-> NaN]
            ELSE [n \in Nodes |-> SolveCoord(energy, start, vec_y, vec_bvalues, n)]

(***************************************************************************)
(* eval_MSE and eval_fitness.                                              *)
(***************************************************************************)
\* u_0.coeffs
Coeffs(u_0) == [n \in Nodes |-> Num(u_0[n])]

\* faulty variant: warm start from the previous sample's solution
X0Warm(u_0, x_prev) == x_prev

\* the starting point handed to the solver for a sample
X0(u_0, x_prev) == Coeffs(u_0)

\* np.linalg.norm(x - X[i, :])**2
SqNorm(x, Xrow) ==
    IF \E n \in Nodes : IsNaN(x[n]) THEN NaN
    ELSE Num(SumTo([n \in Nodes |-> (Val(x[n]) - Xrow[n]) * (Val(x[n]) - Xrow[n])],
                   NumNodes))

\* faulty variant: the NaN test is dropped
ClampNoNaN(current_err) == IF FGt(current_err, 100) THEN Num(100) ELSE current_err

\* faulty variant: a larger threshold
ClampHigh(current_err) ==
    IF FGt(current_err, 1000) \/ IsNaN(current_err) THEN Num(1000) ELSE current_err

\* if current_err > 100 or math.isnan(current_err): current_err = 100
Clamp(current_err) ==
    IF FGt(current_err, 100) \/ IsNaN(current_err) THEN Num(100) ELSE current_err

\* what a call returns: tag "raised" (an exception left the call), "sols"
\* (return_best_sol) or "err" (the value num/den)
Result(tag, num, den, sols, errs) ==
    [tag |-> tag, num |-> num, den |-> den, sols |-> sols, errs |-> errs]

Raised == Result("raised", NaN, 1, <<>>, <<>>)

\* the loop over the samples, from sample i on
RECURSIVE Loop(_, _, _, _, _, _, _)
Loop(energy, X, y, bvalues, u_0, i, acc) ==
    IF acc.tag = "raised" \/ i > Len(y) THEN acc
    ELSE IF i > Len(bvalues) \/ i > Len(X) \/ energy = "degenerate" THEN Raised
    ELSE LET x_prev == IF i = 1 THEN Coeffs(u_0) ELSE acc.sols[i - 1]
             x == Minimize(energy, X0(u_0, x_prev), y[i], bvalues[i])
             current_err == Clamp(SqNorm(x, X[i]))
         IN Loop(energy, X, y, bvalues, u_0, i + 1,
                 Result("err", FAdd(acc.num, current_err), 1,
                        Append(acc.sols, x), Append(acc.errs, current_err)))

\* toolbox.compile(expr=individual): None when it raises
Compile(individual) ==
    IF individual.energy = "illtyped" THEN "None" ELSE individual.energy

eval_MSE(individual, X, y, bvalues, u_0, return_best_sol) ==
    IF Compile(individual) = "None" THEN Raised
    ELSE LET r == Loop(Compile(individual), X, y, bvalues, u_0, 1,
                       Result("err", Num(0), 1, <<>>, <<>>))
         IN IF r.tag = "raised" THEN Raised
            ELSE IF return_best_sol THEN [r EXCEPT !.tag = "sols"]
            ELSE IF Len(X) = 0 THEN Raised
            ELSE [r EXCEPT !.den = Len(X)]

\* faulty variant: the occurrence counts are added up
PrimitivePenaltySum(individual) ==
    SumSeq([k \in 1..Len(primitives_strings) |-> Count(Str(individual), primitives_strings[k])])

\* max([indstr.count(string) for string in primitives_strings])
PrimitivePenalty(individual) ==
    MaxOfSeq([k \in 1..Len(primitives_strings) |-> Count(Str(individual), primitives_strings[k])])

\* the term added to the error, by penalty["method"]
PenaltyTerm(individual, penalty) ==
    CASE penalty.method = "primitive" -> penalty.reg_param * PrimitivePenalty(individual)
      [] penalty.method = "length" -> penalty.reg_param * Len(individual.tree)
      [] OTHER -> 0

eval_fitness(individual, X, y, bvalues, u_0, penalty) ==
    LET total_err == eval_MSE(individual, X, y, bvalues, u_0, FALSE)
    IN IF total_err.tag = "raised" THEN Raised
       ELSE [total_err EXCEPT
               !.tag = "tuple",
               !.num = FAdd(total_err.num,
                            Num(PenaltyTerm(individual, penalty) * total_err.den))]

(***************************************************************************)
(* The inputs of the model.                                                *)
(***************************************************************************)
\* the field with value b on the boundary and v inside
Vec(b, v) == [n \in Nodes |-> IF n \in bnodes THEN b ELSE v]

\* samples (target X, source y); the sources vanish on the boundary
SamplePool ==
    << [X |-> Vec(0, 11), y |-> Vec(0, 1)],
       [X |-> Vec(1, 10), y |-> Vec(0, 0)],
       [X |-> Vec(1, 1), y |-> Vec(0, 2)] >>

U0Pool == {Vec(0, 0), Vec(1, 1)}

ZeroEnergy == [tree |-> <<"Sub", "Inn", "u", "u", "Inn", "u", "u">>, energy |-> "zero"]

IndPool ==
    << ZeroEnergy,
       [tree |-> <<"Inn", "fk", "u">>, energy |-> "weighted"],
       [tree |-> <<"Inn", "u", "fk">>, energy |-> "unbounded"],
       [tree |-> <<"Inn", "AddP", "u", "u", "AddP", "u", "fk">>, energy |-> "nan"],
       [tree |-> <<"Inn", "cob", "u", "fk">>, energy |-> "degenerate"],
       [tree |-> <<"u">>, energy |-> "illtyped"] >>

Methods == {"primitive", "length", "none", "other"}
Penalties == [method : Methods, reg_param : 0..MaxReg]

SampleSeqs == UNION {[1..k -> 1..Len(SamplePool)] : k \in 0..MaxSamples}

DropLast(s) == IF Len(s) = 0 THEN s ELSE SubSeq(s, 1, Len(s) - 1)

\* a partition: the rows of X and of y, and bvalues = X[:, bnodes]
Partition(s, skew) ==
    LET Xall == [i \in 1..Len(s) |-> SamplePool[s[i]].X]
        yall == [i \in 1..Len(s) |-> SamplePool[s[i]].y]
        Xrows == IF skew = "fewer_X" THEN DropLast(Xall) ELSE Xall
    IN [X |-> Xrows,
        y |-> IF skew = "fewer_y" THEN DropLast(yall) ELSE yall,
        bvalues |-> [i \in 1..Len(Xrows) |-> BValues(Xrows[i])]]

Partitions == {Partition(s, skew) : s \in SampleSeqs, skew \in {"same", "fewer_y", "fewer_X"}}

(***************************************************************************)
(* Specification of one call of the evaluation functions.                  *)
(***************************************************************************)
VARIABLES call, pc, ret,                  \* one call of an evaluation function
          cfg,                            \* the configuration file
          vpc, vpop, vop, vparents, vraw, vret,   \* the variation operators
          rpc, u0, pop, gen, train_fit_history, val_fit_history, best, min_valerr,
          stall,                          \* a run
          rng, run_no, prev               \* the random generator, repeated runs

evalVars == <<call, pc, ret>>
varVars == <<vpc, vpop, vop, vparents, vraw, vret>>
runVars == <<rpc, u0, pop, gen, train_fit_history, val_fit_history, best, min_valerr,
            stall>>
repVars == <<rng, run_no, prev>>
vars == <<evalVars, cfg, varVars, runVars, repVars>>

\* the gp section of the configuration file
Config(NINDIVIDUALS, NGEN, frac_num, min_, max_, early_stopping) ==
    [NINDIVIDUALS |-> NINDIVIDUALS, NGEN |-> NGEN, frac_num |-> frac_num,
     min_ |-> min_, max_ |-> max_, early_stopping |-> early_stopping]

NoConfig == Config(1, 1, 0, 0, 0, 1)

NoRet == Result("none", NaN, 1, <<>>, <<>>)

\* the arguments of a call
Call(individual, part, u_0, penalty) ==
    [individual |-> individual, part |-> part, u_0 |-> u_0, penalty |-> penalty]

Individuals == {IndPool[k] : k \in 1..Len(IndPool)}

NoPenalty == [method |-> "none", reg_param |-> 0]

EvalIdle ==
    /\ call = Call(ZeroEnergy, Partition(<<>>, "same"), Vec(0, 0), NoPenalty)
    /\ pc = "ready"
    /\ ret = NoRet

VarIdle ==
    /\ vpc = "new" /\ vpop = <<>> /\ vop = "none"
    /\ vparents = <<>> /\ vraw = <<>> /\ vret = <<>>

RunIdle ==
    /\ rpc = "start" /\ u0 = Vec(0, 0) /\ pop = <<>> /\ gen = 0
    /\ train_fit_history = <<>> /\ val_fit_history = <<>>
    /\ best = <<>> /\ min_valerr = NaN /\ stall = 0

RepIdle == rng = 0 /\ run_no = 1 /\ prev = <<>>

Init == EvalIdle /\ VarIdle /\ RunIdle /\ RepIdle /\ cfg = NoConfig

\* toolbox.evaluate_train / evaluate_val_fit
EvaluateFit ==
    /\ pc = "ready"
    /\ \E individual \in Individuals, part \in Partitions, u_0 \in U0Pool,
          penalty \in Penalties :
          /\ call' = Call(individual, part, u_0, penalty)
          /\ ret' = eval_fitness(individual, part.X, part.y, part.bvalues, u_0, penalty)
    /\ pc' = "fitness"
    /\ UNCHANGED <<cfg, varVars, runVars, repVars>>

\* toolbox.evaluate_val_MSE and the score on the test set
EvaluateMSE ==
    /\ pc = "ready"
    /\ \E individual \in Individuals, part \in Partitions, u_0 \in U0Pool :
          /\ call' = Call(individual, part, u_0, NoPenalty)
          /\ ret' = eval_MSE(individual, part.X, part.y, part.bvalues, u_0, FALSE)
    /\ pc' = "mse"
    /\ UNCHANGED <<cfg, varVars, runVars, repVars>>

\* plot_sol and the saved solutions: eval_MSE(..., return_best_sol=True)
BestSols ==
    /\ pc = "ready"
    /\ \E individual \in Individuals, part \in Partitions, u_0 \in U0Pool :
          /\ call' = Call(individual, part, u_0, NoPenalty)
          /\ ret' = eval_MSE(individual, part.X, part.y, part.bvalues, u_0, TRUE)
    /\ pc' = "sols"
    /\ UNCHANGED <<cfg, varVars, runVars, repVars>>

Next == EvaluateFit \/ EvaluateMSE \/ BestSols

Spec == Init /\ [][Next]_vars

(***************************************************************************)
(* Properties of one call.                                                 *)
(***************************************************************************)
Returned == pc # "ready" /\ ret.tag # "raised"

\* the squared distance of sample i's solution to its target
Raw(i) == SqNorm(ret.sols[i], call.part.X[i])

\* C1: in aggregate mode every sample of the partition contributes its
\* squared distance to the target when that is a number <= 100, and exactly
\* 100 when it is NaN or greater than 100 (100 itself is kept); the error
\* sum is the sum of these contributions.
C1_ClampedContribution ==
    (Returned /\ pc \in {"mse", "fitness"}) =>
        /\ Len(ret.errs) = Len(call.part.y)
        /\ \A i \in 1..Len(ret.errs) :
              ret.errs[i] = IF ~IsNaN(Raw(i)) /\ Val(Raw(i)) <= 100 THEN Raw(i) ELSE Num(100)
        /\ pc = "mse" =>
              ret.num = Num(SumSeq([i \in 1..Len(ret.errs) |-> Val(ret.errs[i])]))

C1_Witness ==
    /\ Returned /\ pc = "mse"
    /\ \E i \in 1..Len(ret.errs) : IsNaN(Raw(i)) /\ ret.errs[i] = Num(100)
    /\ \E i \in 1..Len(ret.errs) : Raw(i) = Num(100) /\ ret.errs[i] = Num(100)
    /\ \E i \in 1..Len(ret.errs) : FGt(Raw(i), 100) /\ ret.errs[i] = Num(100)

\* the number of places of s where sub occurs
Occurrences(s, sub) == Cardinality({i \in 1..Len(s) : IsPrefixAt(s, sub, i)})

\* the largest occurrence count of a tracked primitive name
MaxOccurrences(individual) ==
    LET counts == {Occurrences(Str(individual), primitives_strings[k]) :
                     k \in 1..Len(primitives_strings)}
    IN CHOOSE m \in counts : \A c \in counts : c <= m

\* C2: eval_fitness returns a 1-tuple holding the partition error plus the
\* one penalty term its method selects: reg_param times the largest
\* occurrence count of a tracked primitive name ('primitive'), reg_param
\* times the number of nodes ('length'), nothing otherwise.
C2_FitnessIsErrorPlusPenalty ==
    (Returned /\ pc = "fitness") =>
        LET total == SumSeq([i \in 1..Len(ret.errs) |-> Val(ret.errs[i])])
            reg == call.penalty.reg_param
            term == CASE call.penalty.method = "primitive" ->
                            reg * MaxOccurrences(call.individual)
                      [] call.penalty.method = "length" ->
                            reg * Len(call.individual.tree)
                      [] OTHER -> 0
        IN /\ ret.tag = "tuple"
           /\ ret.den = Len(call.part.X)
           /\ ret.num = Num(total + term * ret.den)

C2_Witness ==
    /\ Returned /\ pc = "fitness"
    /\ call.penalty.method = "primitive" /\ call.penalty.reg_param > 0
    /\ MaxOccurrences(call.individual) >= 2
    /\ Len(call.part.y) > 1
    /\ Val(ret.num) > SumSeq([i \in 1..Len(ret.errs) |-> Val(ret.errs[i])])

Aligned3 == Len(call.part.y) = 3 /\ Len(call.part.X) = 3

\* C8 as claimed: for the zero energy on 3 samples every solve returns the
\* initial guess, and the error is the mean squared distance between the
\* initial guess and the targets.
C8_SolveReturnsInitialGuess ==
    (Returned /\ call.individual = ZeroEnergy /\ Aligned3) =>
        /\ \A i \in 1..3 : ret.sols[i] = Coeffs(call.u_0)
        /\ pc = "mse" =>
              /\ ret.den = 3
              /\ ret.num = Num(SumSeq([i \in 1..3 |->
                                Val(SqNorm(Coeffs(call.u_0), call.part.X[i]))]))

\* the squared distance between u_0 and a target over the inner nodes
InnerSq(u_0, Xrow) ==
    SumTo([n \in Nodes |-> IF n \in bnodes THEN 0
                           ELSE (u_0[n] - Xrow[n]) * (u_0[n] - Xrow[n])], NumNodes)

Min100(v) == IF v > 100 THEN 100 ELSE v

\* C8 (amended): for the zero energy on 3 samples every solve returns the
\* initial guess with its boundary entries moved to the sample's boundary
\* values, and the error is the mean over the samples of the squared
\* distance between the initial guess and the target over the inner nodes,
\* each capped at 100.
C8_SolveMovesBoundaryOnly ==
    (Returned /\ call.individual = ZeroEnergy /\ Aligned3) =>
        /\ \A i \in 1..3 : \A n \in Nodes :
              ret.sols[i][n] = IF n \in bnodes THEN Num(call.part.bvalues[i][n])
                               ELSE Num(call.u_0[n])
        /\ pc = "mse" =>
              /\ ret.den = 3
              /\ ret.num = Num(SumSeq([i \in 1..3 |->
                                Min100(InnerSq(call.u_0, call.part.X[i]))]))

C8_Witness ==
    /\ Returned /\ call.individual = ZeroEnergy /\ Aligned3 /\ pc = "mse"
    /\ \E i \in 1..3 : ret.sols[i] # Coeffs(call.u_0)
    /\ \E i \in 1..3 : InnerSq(call.u_0, call.part.X[i]) \in 1..99

\* the partition with rows i and j exchanged
Swapped(part, i, j) ==
    LET sw(rows) == [k \in 1..Len(rows) |->
                       IF k = i THEN rows[j] ELSE IF k = j THEN rows[i] ELSE rows[k]]
    IN [X |-> sw(part.X), y |-> sw(part.y), bvalues |-> sw(part.bvalues)]

\* C9: every sample's solve starts from u_0 and from nothing else, so a
\* sample's error depends on that sample alone, and the aggregate error is
\* the same for every order of the samples.
C9_SolvesIndependent ==
    Returned =>
        /\ \A i \in 1..Len(ret.sols) :
              LET x == Minimize(Compile(call.individual), Coeffs(call.u_0),
                                call.part.y[i], call.part.bvalues[i])
              IN /\ ret.sols[i] = x
                 /\ ret.errs[i] = Clamp(SqNorm(x, call.part.X[i]))
        /\ (pc = "mse" /\ Len(call.part.y) = Len(call.part.X)) =>
              \A i, j \in 1..Len(call.part.y) :
                 LET p == Swapped(call.part, i, j)
                     r == eval_MSE(call.individual, p.X, p.y, p.bvalues, call.u_0, FALSE)
                 IN r.num = ret.num /\ r.den = ret.den

C9_Witness ==
    /\ Returned /\ pc = "mse" /\ Len(call.part.y) = 3 /\ Len(call.part.X) = 3
    /\ ret.sols[1] # Coeffs(call.u_0)
    /\ ret.sols[2][NumNodes] = Num(call.u_0[NumNodes])
    /\ ret.errs[1] # ret.errs[2]

\* C10: on a non-empty partition with as many sources as targets the
\* aggregate error is a number in [0, 100], and the fitness under a
\* non-negative reg_param is a number not below the error.
C10_ErrorWithinBounds ==
    (Returned /\ Len(call.part.y) = Len(call.part.X) /\ Len(call.part.X) > 0) =>
        /\ pc = "mse" =>
              ~IsNaN(ret.num) /\ 0 <= Val(ret.num) /\ Val(ret.num) <= 100 * ret.den
        /\ pc = "fitness" =>
              /\ ~IsNaN(ret.num)
              /\ Val(ret.num) >= SumSeq([i \in 1..Len(ret.errs) |-> Val(ret.errs[i])])
              /\ SumSeq([i \in 1..Len(ret.errs) |-> Val(ret.errs[i])]) <= 100 * ret.den

C10_Witness ==
    /\ Returned /\ pc = "mse" /\ Len(call.part.y) = Len(call.part.X)
    /\ Len(call.part.X) = 3
    /\ Val(ret.num) = 100 * ret.den
    /\ \E i \in 1..3 : \E n \in Nodes : IsNaN(ret.sols[i][n])

(***************************************************************************)
(* The variation operators: toolbox.mate and toolbox.mutate, each the      *)
(* configured operator decorated with gp.staticLimit(height, 17).          *)
(***************************************************************************)
MaxHeight == 19
max_value == 17

\* the tree cob(cob(...(u))) of height h
Chain(h) ==
    [tree |-> [i \in 1..(h + 1) |-> IF i <= h THEN "cob" ELSE "u"], energy |-> "weighted"]

\* toolbox.expr: genHalfAndHalf(pset, min_, max_) gives a tree whose height
\* lies between min_ and max_
Generated(c) == {Chain(h) : h \in c.min_..c.max_}

\* what the configured crossover or mutation may produce
RawHeights(c) == {0, c.max_ + 1, max_value, max_value + 1, MaxHeight}
RawOffspring(c) == {Chain(h) : h \in RawHeights(c)}

\* faulty variant: the limit is not applied
StaticLimitOff(new_ind, keep_ind) == new_ind

\* gp.staticLimit: an offspring above the limit is replaced by keep_ind, a
\* copy of one of the parents picked at random
StaticLimit(new_ind, keep_ind) ==
    IF Height(new_ind) > max_value THEN keep_ind ELSE new_ind

VarConfigs == {Config(2, 1, 0, 0, 1, 1), Config(2, 1, 0, 1, 2, 1),
               Config(2, 1, 0, max_value, max_value + 1, 1)}

InitVariation ==
    /\ EvalIdle /\ VarIdle /\ RunIdle /\ RepIdle
    /\ cfg \in VarConfigs

\* toolbox.individual, twice
Generate ==
    /\ vpc = "new"
    /\ vpop' \in [1..2 -> Generated(cfg)]
    /\ vpc' = "evolving"
    /\ UNCHANGED <<evalVars, runVars, repVars, cfg, vop, vparents, vraw, vret>>

\* toolbox.mate(ind1, ind2)
Mate ==
    /\ vpc = "evolving"
    /\ \E raw \in [1..2 -> RawOffspring(cfg)], pick \in [1..2 -> 1..2] :
          /\ vparents' = vpop
          /\ vraw' = raw
          /\ vret' = [i \in 1..2 |-> StaticLimit(raw[i], vpop[pick[i]])]
          /\ vpop' = vret'
    /\ vop' = "mate"
    /\ UNCHANGED <<evalVars, runVars, repVars, cfg, vpc>>

\* toolbox.mutate(ind)
Mutate ==
    /\ vpc = "evolving"
    /\ \E k \in 1..2, raw \in RawOffspring(cfg) :
          /\ vparents' = <<vpop[k]>>
          /\ vraw' = <<raw>>
          /\ vret' = <<StaticLimit(raw, vpop[k])>>
          /\ vpop' = [vpop EXCEPT ![k] = StaticLimit(raw, vpop[k])]
    /\ vop' = "mutate"
    /\ UNCHANGED <<evalVars, runVars, repVars, cfg, vpc>>

NextVariation == Generate \/ Mate \/ Mutate

SpecVariation == InitVariation /\ [][NextVariation]_vars

Parents == {vparents[i] : i \in 1..Len(vparents)}

\* C4 as claimed: every individual mate or mutate returns has height at
\* most the configured maximum height, an offspring above it being replaced
\* by a copy of the corresponding parent.
C4_HeightWithinConfiguredMax ==
    vop # "none" =>
        \A i \in 1..Len(vret) :
            /\ Height(vret[i]) <= cfg.max_
            /\ Height(vraw[i]) > cfg.max_ => vret[i] = vparents[i]

\* C4 (amended): every individual mate or mutate returns either has height
\* at most 17, the fixed limit of the decorator, or is an unmodified copy of
\* one of the parents; an offspring above 17 is replaced by such a copy, one
\* of height at most 17 is returned as it is, and no height exceeds the
\* larger of 17 and the configured max_.
C4_HeightWithinStaticLimit ==
    vop # "none" =>
        \A i \in 1..Len(vret) :
            /\ Height(vret[i]) <= max_value \/ vret[i] \in Parents
            /\ Height(vraw[i]) > max_value => vret[i] \in Parents
            /\ Height(vraw[i]) <= max_value => vret[i] = vraw[i]
            /\ Height(vret[i]) <= (IF cfg.max_ > max_value THEN cfg.max_ ELSE max_value)

C4_Witness ==
    /\ vop = "mate"
    /\ Height(vraw[1]) > max_value /\ Height(vraw[2]) > cfg.max_
    /\ Height(vraw[2]) <= max_value
    /\ vret[1] = vparents[2] /\ vret[1] # vparents[1]
    /\ vret[2] = vraw[2]

(***************************************************************************)
(* The run: stgp_poisson sets up the problem and hands it to the           *)
(* generational loop (GPSymbRegProblem.run), which dispatches the          *)
(* evaluations through toolbox.map = pool.map.                             *)
(***************************************************************************)
MaxPop == 2
MaxGen == 2
FracDen == 2

RunPool == <<ZeroEnergy, IndPool[2], IndPool[3], IndPool[6]>>
RunPoolSet == {RunPool[k] : k \in 1..Len(RunPool)}
U0Seq == <<Vec(0, 0), Vec(1, 1)>>

TrainPart == Partition(<<1, 2, 3>>, "same")
ValPart == Partition(<<3, 2>>, "same")
RunPenalty == [method |-> "length", reg_param |-> 1]

\* the elitist fraction is frac_num / FracDen
RunConfigs ==
    {Config(n, g, f, 0, 2, p) :
        n \in 1..MaxPop, g \in 1..MaxGen, f \in 0..FracDen, p \in 1..MaxGen}

\* faulty variant: the fraction is truncated before it is multiplied
frac_elitist_trunc(c) == (c.frac_num \div FracDen) * c.NINDIVIDUALS

\* frac_elitist = int(config_file["gp"]["frac_elitist"]*NINDIVIDUALS)
frac_elitist(c) == (c.frac_num * c.NINDIVIDUALS) \div FracDen

\* faulty variant: another field of the configuration is read
PopulationSizeNGEN(c) == c.NGEN

\* NINDIVIDUALS = config_file["gp"]["NINDIVIDUALS"], handed to the problem
PopulationSize(c) == c.NINDIVIDUALS

\* an individual of the population with its (invalid) fitness
Member(individual) == [ind |-> individual, fit |-> NaN]

\* toolbox.individual_pop: trees of height between min_ and max_
RunGenerated(c) == {g \in RunPoolSet : Height(g) \in c.min_..c.max_}

\* toolbox.evaluate_train
EvalTrain(individual, u_0) ==
    eval_fitness(individual, TrainPart.X, TrainPart.y, TrainPart.bvalues, u_0, RunPenalty)

\* toolbox.evaluate_val_MSE
EvalVal(individual, u_0) ==
    eval_MSE(individual, ValPart.X, ValPart.y, ValPart.bvalues, u_0, FALSE)

\* toolbox.map = pool.map over the individuals without a valid fitness: an
\* exception in one evaluation is raised again in the caller
TrainResults == [g \in RunPoolSet |-> [u_0 \in U0Pool |-> EvalTrain(g, u_0)]]
ValResults == [g \in RunPoolSet |-> [u_0 \in U0Pool |-> EvalVal(g, u_0)]]

MapRaises(p, u_0) ==
    \E i \in 1..Len(p) : IsNaN(p[i].fit) /\ TrainResults[p[i].ind][u_0].tag = "raised"

WithFitness(p, u_0) ==
    [i \in 1..Len(p) |->
        IF IsNaN(p[i].fit) THEN [p[i] EXCEPT !.fit = TrainResults[p[i].ind][u_0].num]
        ELSE p[i]]

MinFit(p) ==
    LET fits == {Val(p[i].fit) : i \in 1..Len(p)}
    IN CHOOSE m \in fits : \A f \in fits : m <= f

\* place of individual i when the population is sorted by fitness
Rank(p, i) ==
    1 + Cardinality({j \in 1..Len(p) :
                       \/ Val(p[j].fit) < Val(p[i].fit)
                       \/ (Val(p[j].fit) = Val(p[i].fit) /\ j < i)})

\* the e best individuals, fitness kept
Elites(p, e) ==
    [k \in 1..(IF e < Len(p) THEN e ELSE Len(p)) |->
        p[CHOOSE i \in 1..Len(p) : Rank(p, i) = k]]

\* what selection and variation can put in a slot: a selected individual
\* as it is, or the result of the decorated operator on it, fitness deleted
OffspringOf(p) ==
    {p[i] : i \in 1..Len(p)}
    \cup {Member(StaticLimit(raw, p[i].ind)) : raw \in RunPoolSet, i \in 1..Len(p)}

Slots(c) ==
    IF frac_elitist(c) < PopulationSize(c) THEN PopulationSize(c) - frac_elitist(c) ELSE 0

\* validation error of the generation's best, best individual so far,
\* generations without improvement
Track(q) ==
    LET top == Elites(q, 1)[1].ind
        valerr == ValResults[top][u0].num
        better == IsNaN(min_valerr) \/ Val(valerr) < Val(min_valerr)
    IN /\ val_fit_history' = Append(val_fit_history, Val(valerr))
       /\ best' = IF better THEN <<top>> ELSE best
       /\ min_valerr' = IF better THEN valerr ELSE min_valerr
       /\ stall' = IF better THEN 0 ELSE stall + 1

\* u_0_vec = 0.01*np.random.rand(num_nodes)
SetupStep(u_0) ==
    /\ rpc = "start"
    /\ u0' = u_0
    /\ rpc' = "init"
    /\ UNCHANGED <<pop, gen, train_fit_history, val_fit_history, best, min_valerr, stall>>

\* generation 0: the population is created and evaluated
InitialPopulationStep(inds) ==
    /\ rpc = "init"
    /\ LET p == [i \in 1..PopulationSize(cfg) |-> Member(inds[i])]
       IN IF MapRaises(p, u0)
          THEN /\ rpc' = "aborted"
               /\ pop' = p
               /\ UNCHANGED <<train_fit_history, val_fit_history, best, min_valerr, stall>>
          ELSE /\ rpc' = "running"
               /\ pop' = WithFitness(p, u0)
               /\ train_fit_history' = <<MinFit(WithFitness(p, u0))>>
               /\ Track(WithFitness(p, u0))
    /\ UNCHANGED <<u0, gen>>

\* one generation: elites, offspring, evaluation, records
NextGenerationStep(off) ==
    /\ rpc = "running"
    /\ gen < cfg.NGEN - 1 /\ stall < cfg.early_stopping
    /\ LET p == Elites(pop, frac_elitist(cfg)) \o off
       IN IF MapRaises(p, u0)
          THEN /\ rpc' = "aborted"
               /\ UNCHANGED <<pop, gen, train_fit_history, val_fit_history, best,
                              min_valerr, stall>>
          ELSE /\ rpc' = "running"
               /\ pop' = WithFitness(p, u0)
               /\ gen' = gen + 1
               /\ train_fit_history' =
                     Append(train_fit_history, MinFit(WithFitness(p, u0)))
               /\ Track(WithFitness(p, u0))
    /\ UNCHANGED u0

\* the loop has ended: best = GPproblem.best and the reports
FinishStep ==
    /\ rpc = "running"
    /\ gen = cfg.NGEN - 1 \/ stall >= cfg.early_stopping
    /\ rpc' = "done"
    /\ UNCHANGED <<u0, pop, gen, train_fit_history, val_fit_history, best, min_valerr, stall>>

InitRun ==
    /\ EvalIdle /\ VarIdle /\ RunIdle /\ RepIdle
    /\ cfg \in RunConfigs

Setup ==
    /\ \E u_0 \in U0Pool : SetupStep(u_0)
    /\ UNCHANGED <<evalVars, cfg, varVars, repVars>>

InitialPopulation ==
    /\ \E inds \in [1..PopulationSize(cfg) -> RunGenerated(cfg)] : InitialPopulationStep(inds)
    /\ UNCHANGED <<evalVars, cfg, varVars, repVars>>

NextGeneration ==
    /\ \E off \in [1..Slots(cfg) -> OffspringOf(pop)] : NextGenerationStep(off)
    /\ UNCHANGED <<evalVars, cfg, varVars, repVars>>

Finish ==
    /\ FinishStep
    /\ UNCHANGED <<evalVars, cfg, varVars, repVars>>

NextRun == Setup \/ InitialPopulation \/ NextGeneration \/ Finish

SpecRun == InitRun /\ [][NextRun]_vars

\* C3: an individual whose expression raises at compilation or evaluation
\* gets a fitness like the others of the batch and the loop goes on: the run
\* is never ended by one bad individual.
C3_BadIndividualPenalised ==
    /\ rpc # "aborted"
    /\ rpc \in {"running", "done"} => \A i \in 1..Len(pop) : ~IsNaN(pop[i].fit)

NonIncreasing(h) == \A i \in 1..(Len(h) - 1) : h[i + 1] <= h[i]

\* C5 as stated: for every configuration the minimum training fitness never
\* increases from one generation to the next.
C5_MinFitnessNonIncreasing == NonIncreasing(train_fit_history)

\* C5: when the elitist fraction times NINDIVIDUALS is at least one, the
\* minimum training fitness never increases from one generation to the next.
C5_MinFitnessNonIncreasingWithElite ==
    cfg.frac_num * cfg.NINDIVIDUALS >= FracDen => NonIncreasing(train_fit_history)

\* a generation with one elite in which the other individual got worse
C5_Witness ==
    /\ rpc = "running" /\ gen >= 1
    /\ cfg.frac_num * cfg.NINDIVIDUALS >= FracDen
    /\ frac_elitist(cfg) < cfg.NINDIVIDUALS
    /\ \E i \in 1..Len(pop) : Val(pop[i].fit) > train_fit_history[1]

RngMod == 8

Lcg(r) == (5 * r + 3) % RngMod

RECURSIVE Skip(_, _)
Skip(r, k) == IF k = 0 THEN r ELSE Skip(Lcg(r), k - 1)

\* the generated trees in a fixed order
RunGeneratedSeq(c) ==
    LET InRange(g) == Height(g) \in c.min_..c.max_
    IN SelectSeq(RunPool, InRange)

\* the offspring of slot i, drawn with the generator in state rng
DrawnOffspring(i) ==
    LET parent == pop[(Skip(rng, 2 * i - 2) % Len(pop)) + 1]
        o == Skip(rng, 2 * i - 1) % (Len(RunPool) + 1)
    IN IF o = 0 THEN parent ELSE Member(StaticLimit(RunPool[o], parent.ind))

InitRepeat ==
    /\ EvalIdle /\ VarIdle /\ RunIdle /\ RepIdle
    /\ cfg \in RunConfigs

SetupR ==
    /\ \E r \in 0..(RngMod - 1) :
          /\ SetupStep(U0Seq[(r % Len(U0Seq)) + 1])
          /\ rng' = Lcg(r)
    /\ UNCHANGED <<evalVars, cfg, varVars, run_no, prev>>

InitialPopulationR ==
    /\ InitialPopulationStep(
          [i \in 1..PopulationSize(cfg) |->
              RunGeneratedSeq(cfg)[(Skip(rng, i - 1) % Len(RunGeneratedSeq(cfg))) + 1]])
    /\ rng' = Skip(rng, PopulationSize(cfg))
    /\ UNCHANGED <<evalVars, cfg, varVars, run_no, prev>>

NextGenerationR ==
    /\ NextGenerationStep([i \in 1..Slots(cfg) |-> DrawnOffspring(i)])
    /\ rng' = Skip(rng, 2 * Slots(cfg))
    /\ UNCHANGED <<evalVars, cfg, varVars, run_no, prev>>

\* the program is started again with the same configuration
Rerun ==
    /\ rpc = "done" /\ run_no = 1
    /\ prev' = <<[best |-> best, train |-> train_fit_history, val |-> val_fit_history]>>
    /\ run_no' = 2
    /\ rng' = 0
    /\ rpc' = "start" /\ u0' = Vec(0, 0) /\ pop' = <<>> /\ gen' = 0
    /\ train_fit_history' = <<>> /\ val_fit_history' = <<>>
    /\ best' = <<>> /\ min_valerr' = NaN /\ stall' = 0
    /\ UNCHANGED <<evalVars, cfg, varVars>>

NextRepeat == SetupR \/ InitialPopulationR \/ NextGenerationR \/ Finish \/ Rerun

SpecRepeat == InitRepeat /\ [][NextRepeat]_vars

\* C7: the second run with the same configuration ends with the best
\* individual and the training and validation histories of the first.
C7_RepeatedRunsAgree ==
    (run_no = 2 /\ rpc = "done") =>
        prev[1] = [best |-> best, train |-> train_fit_history, val |-> val_fit_history]

====
